---------------------------- MODULE Spec2Model ----------------------------
(***************************************************************************)
(* Model of MachineLearning/CNTKComputationNetworkLib/ReshapingNodes.h:    *)
(* the Stack/Unstack tensor shuffle of ReinterpretNodeBase and the         *)
(* ReshapeNode that drives it (Validate, UpdateFunctionMBSize,             *)
(* OnEvaluateBeginIteration, EvaluateThisNode, ComputeInputPartial).       *)
(*                                                                         *)
(* A Matrix is its column-major storage array together with its            *)
(* dimensions: element (i, j) lives at storage index j * rows + i.         *)
(* An MBLayout is a pointer that may be null; when it is not, it carries   *)
(* the number of parallel sequences S and the number of time steps T.      *)
(***************************************************************************)
EXTENDS Integers, Sequences, FiniteSets, TLC

\* ------------------------------------------------------------------ bounds
\* Axis sizes of the shuffle harness (feature dim, sequences, factor, steps).
MaxD == 2
MaxS == 2
MaxK == 3
MaxT == 2
\* How many times the harness may apply Stack to the same destination.
MaxApply == 2

\* ---------------------------------------------------------------- matrices

\* Contents of a buffer nobody has written yet (Resize leaves them undefined).
Indeterminate == 0 - 1

\* The element generators the environment fills buffers with:
\* 0 = all zero, 1 = all distinct (the storage index), 2 = a repeating pattern.
FillValue(p, k) ==
    IF p = 0 THEN 0
    ELSE IF p = 1 THEN k
    ELSE ((k * k) % 3) + 10

Mat(r, c, p) == [rows |-> r, cols |-> c, data |-> [k \in 1..(r * c) |-> FillValue(p, k)]]

GetNumElements(m) == m.rows * m.cols

\* Element (i, j), 0-based, of a column-major matrix.
At(m, i, j) == m.data[j * m.rows + i + 1]

\* Matrix::Reshaped: a view of the same storage under other dimensions.
Reshaped(m, numRows, numCols) == [rows |-> numRows, cols |-> numCols, data |-> m.data]

\* FrameRange: either all frames of the minibatch or the single time step t.
AllFrames == [all |-> TRUE, t |-> 0]
FrameAt(t) == [all |-> FALSE, t |-> t]
IsAllFrames(frameRange) == frameRange.all

\* MBLayout pointers.
NullLayout == [isNull |-> TRUE, S |-> 0, T |-> 0]
Layout(S, T) == [isNull |-> FALSE, S |-> S, T |-> T]

\* DataSlice over all frames is the whole matrix (a view, not a copy).  Stack and
\* Unstack are only ever handed the all-frames range: EvaluateThisNode rejects
\* every other range, and backpropagation runs over the range that was evaluated.
DataSlice(m, frameRange, pMBLayout) == m

\* --------------------------------------------------------- the shuffle kernel

\* Where element na of a (D, S, M, K, T) tensor goes in the (D, K, M, S, T) tensor.
ShuffleTarget(na, D, S, M, K, T) ==
    LET d == na % D
        s == (na \div D) % S
        m == (na \div (D * S)) % M
        k == (na \div (D * S * M)) % K
        t == na \div (D * S * M * K)
    IN  (((t * S + s) * M + m) * K + k) * D + d

\* c = keepWeight * b + scaleFactor * shuffle(a); keepWeight = 0 does not read b.
TensorShuffleScaleAndAdd(keepWeight, a, D, S, M, K, T, scaleFactor, b) ==
    LET N == D * S * M * K * T
        src(nb) == CHOOSE na \in 0..(N - 1) : ShuffleTarget(na, D, S, M, K, T) = nb
    IN  [b EXCEPT !.data =
            [j \in 1..N |->
                IF keepWeight = 0
                THEN scaleFactor * a.data[src(j - 1) + 1]
                ELSE keepWeight * b.data[j] + scaleFactor * a.data[src(j - 1) + 1]]]

\* The kernel's contract: both views hold exactly D*S*M*K*T elements.
ShuffleInContract(from, to, D, S, K, T) ==
    /\ D >= 1 /\ S >= 1 /\ K >= 1 /\ T >= 1
    /\ GetNumElements(from) = D * S * K * T
    /\ GetNumElements(to) = D * S * K * T

\* A plausible slip: the axes are handed over in the order Unstack uses.
StackAxesSwapped(frameRange, pMBLayout, from, to, K, addTo) ==
    LET from0 == Reshaped(from, to.rows, to.cols)
        fromSlice0 == DataSlice(from0, frameRange, pMBLayout)
        toSlice0 == DataSlice(to, frameRange, pMBLayout)
        D == from.rows
        SMKT == from.cols
        fromSlice == Reshaped(fromSlice0, D, SMKT)
        toSlice == Reshaped(toSlice0, D, SMKT)
        S == pMBLayout.S
        T == pMBLayout.T
        M == 1
        shuffled == TensorShuffleScaleAndAdd(IF addTo THEN 1 ELSE 0, fromSlice, D, K, M, S, T, 1, toSlice)
    IN  [to EXCEPT !.data = shuffled.data]

\* A plausible slip: addTo is dropped and the kernel always overwrites.
StackAlwaysOverwrites(frameRange, pMBLayout, from, to, K, addTo) ==
    LET from0 == Reshaped(from, to.rows, to.cols)
        fromSlice0 == DataSlice(from0, frameRange, pMBLayout)
        toSlice0 == DataSlice(to, frameRange, pMBLayout)
        D == from.rows
        SMKT == from.cols
        fromSlice == Reshaped(fromSlice0, D, SMKT)
        toSlice == Reshaped(toSlice0, D, SMKT)
        S == pMBLayout.S
        T == pMBLayout.T
        M == 1
        shuffled == TensorShuffleScaleAndAdd(0, fromSlice, D, S, M, K, T, 1, toSlice)
    IN  [to EXCEPT !.data = shuffled.data]

\* ReinterpretNodeBase::Stack: the result is the new content of 'to'
\* (toSlice is a view of 'to', so the kernel writes into 'to' itself).
Stack(frameRange, pMBLayout, from, to, K, addTo) ==
    LET from0 == Reshaped(from, to.rows, to.cols)
        fromSlice0 == DataSlice(from0, frameRange, pMBLayout)
        toSlice0 == DataSlice(to, frameRange, pMBLayout)
        D == from.rows
        SMKT == from.cols
        fromSlice == Reshaped(fromSlice0, D, SMKT)
        toSlice == Reshaped(toSlice0, D, SMKT)
        S == pMBLayout.S
        T == pMBLayout.T
        M == 1
        shuffled == TensorShuffleScaleAndAdd(IF addTo THEN 1 ELSE 0, fromSlice, D, S, M, K, T, 1, toSlice)
    IN  [to EXCEPT !.data = shuffled.data]

\* A plausible slip: Unstack copied from Stack without exchanging the axes.
UnstackAxesNotExchanged(frameRange, pMBLayout, from, to, K, addTo) ==
    LET fromSlice0 == DataSlice(from, frameRange, pMBLayout)
        to0 == Reshaped(to, from.rows, from.cols)
        toSlice0 == DataSlice(to0, frameRange, pMBLayout)
        D == to.rows
        SMKT == to.cols
        fromSlice == Reshaped(fromSlice0, D, SMKT)
        toSlice == Reshaped(toSlice0, D, SMKT)
        S == pMBLayout.S
        T == pMBLayout.T
        M == 1
        shuffled == TensorShuffleScaleAndAdd(IF addTo THEN 1 ELSE 0, fromSlice, D, S, M, K, T, 1, toSlice)
    IN  [to EXCEPT !.data = shuffled.data]

\* ReinterpretNodeBase::Unstack: the inverse of Stack.
Unstack(frameRange, pMBLayout, from, to, K, addTo) ==
    LET fromSlice0 == DataSlice(from, frameRange, pMBLayout)
        to0 == Reshaped(to, from.rows, from.cols)
        toSlice0 == DataSlice(to0, frameRange, pMBLayout)
        D == to.rows
        SMKT == to.cols
        fromSlice == Reshaped(fromSlice0, D, SMKT)
        toSlice == Reshaped(toSlice0, D, SMKT)
        S == pMBLayout.S
        T == pMBLayout.T
        M == 1
        shuffled == TensorShuffleScaleAndAdd(IF addTo THEN 1 ELSE 0, fromSlice, D, K, M, S, T, 1, toSlice)
    IN  [to EXCEPT !.data = shuffled.data]

\* ------------------------------------------------------------------- state

VARIABLES
    \* the shuffle harness: Stack and Unstack applied to buffers of its own
    tFrom,          \* the source buffer x, D x (S*K*T)
    tTo,            \* the stacked buffer, (D*K) x (S*T)
    tTo0,           \* the stacked buffer as it was before the first Stack call
    tBack,          \* the buffer Unstack writes into, D x (S*K*T)
    tLayout,        \* the layout of the reduced timeline: (S, T)
    tK,             \* the stacking factor
    tLog,           \* the addTo flags of the Stack calls applied so far
    tUnstackAddTo,  \* the addTo flag of the Unstack call
    tpc,            \* "idle" | "init" | "stacked" | "unstacked"
    \* the ReshapeNode and its single input
    m_numRows,      \* configured target row count
    m_imageLayout,  \* configured image dimensions (width, height, channels)
    m_outputImageLayout,
    m_functionValues,   \* the node's output buffer
    m_gradientValues,   \* the gradient with respect to the output
    m_pMBLayout,        \* the node's own layout pointer
    Inputs0,        \* the input node: FunctionValues, GradientValues, MBLayout
    assertsEnabled, \* the build: assert() is compiled in (no NDEBUG)
    pc,             \* where the driver is in its protocol
    err,            \* how the last call ended
    lastCall,       \* the last call made, with its arguments
    gradPrep,       \* what the driver put into the gradient buffers
    envSteps,       \* how often the environment has changed the input
    \* the row nodes (RowSlice, RowStack, RowRepeat) and ReconcileMBLayout; they
    \* share the base-class state above (m_functionValues, m_gradientValues,
    \* m_pMBLayout, Inputs0, ...) and RowSliceNode has an m_numRows of its own
    m_startIndex,       \* RowSliceNode: first row of the band
    m_numRepeat,        \* RowRepeatNode: number of tiles
    m_startRowIndices,  \* RowStackNode: start row of each input in the output
    MoreInputs,         \* Inputs(1), Inputs(2), ... of a node with several inputs
    errNode             \* the input an error message names, -1 when it names none

harnessVars == <<tFrom, tTo, tTo0, tBack, tLayout, tK, tLog, tUnstackAddTo, tpc>>

configVars == <<m_numRows, assertsEnabled>>

nodeVars == <<m_imageLayout, m_outputImageLayout, m_functionValues, m_gradientValues, m_pMBLayout>>

reshapeVars == <<m_numRows, m_imageLayout, m_outputImageLayout, m_functionValues, m_gradientValues,
                 m_pMBLayout, Inputs0, assertsEnabled, pc, err, lastCall, gradPrep, envSteps>>

rowVars == <<m_startIndex, m_numRepeat, m_startRowIndices, MoreInputs, errNode>>

vars == <<tFrom, tTo, tTo0, tBack, tLayout, tK, tLog, tUnstackAddTo, tpc,
          m_startIndex, m_numRepeat, m_startRowIndices, MoreInputs, errNode,
          m_numRows, m_imageLayout, m_outputImageLayout, m_functionValues, m_gradientValues,
          m_pMBLayout, Inputs0, assertsEnabled, pc, err, lastCall, gradPrep, envSteps>>

\* ------------------------------------------------ the shuffle harness

ImageLayout(width, height, channels) == [width |-> width, height |-> height, channels |-> channels]

\* The node while only the shuffle harness runs.
ReshapeIdle ==
    /\ m_numRows = 0 /\ assertsEnabled = FALSE
    /\ m_imageLayout = ImageLayout(0, 0, 0) /\ m_outputImageLayout = ImageLayout(0, 0, 0)
    /\ m_functionValues = Mat(0, 0, 0) /\ m_gradientValues = Mat(0, 0, 0)
    /\ m_pMBLayout = NullLayout
    /\ Inputs0 = [FunctionValues |-> Mat(0, 0, 0), GradientValues |-> Mat(0, 0, 0), MBLayout |-> NullLayout]
    /\ pc = "idle" /\ err = "none"
    /\ lastCall = [op |-> "none", final |-> FALSE, frameRange |-> AllFrames]
    /\ gradPrep = [G |-> "none", g0 |-> 0]
    /\ envSteps = 0

\* The fields of the row nodes while another node runs.
RowNodesIdle ==
    /\ m_startIndex = 0 /\ m_numRepeat = 1 /\ m_startRowIndices = <<>>
    /\ MoreInputs = <<>> /\ errNode = 0 - 1

HarnessIdle ==
    /\ tFrom = Mat(1, 1, 0) /\ tTo = Mat(1, 1, 0) /\ tTo0 = Mat(1, 1, 0) /\ tBack = Mat(1, 1, 0)
    /\ tLayout = NullLayout /\ tK = 1 /\ tLog = <<>>
    /\ tUnstackAddTo = FALSE /\ tpc = "idle"

InitShuffle ==
    \E D \in 1..MaxD, S \in 1..MaxS, K \in 1..MaxK, T \in 1..MaxT, pf \in {1, 2}, pt \in {0, 2} :
        /\ tFrom = Mat(D, S * K * T, pf)
        /\ tTo = Mat(D * K, S * T, pt)
        /\ tTo0 = Mat(D * K, S * T, pt)
        /\ tBack = Mat(D, S * K * T, 2)
        /\ tLayout = Layout(S, T)
        /\ tK = K
        /\ tLog = <<>>
        /\ tUnstackAddTo = FALSE
        /\ tpc = "init"
        /\ ReshapeIdle
        /\ RowNodesIdle

ApplyStack(addTo) ==
    /\ tpc \in {"init", "stacked"}
    /\ Len(tLog) < MaxApply
    /\ tTo' = Stack(AllFrames, tLayout, tFrom, tTo, tK, addTo)
    /\ tLog' = Append(tLog, addTo)
    /\ tpc' = "stacked"
    /\ UNCHANGED <<tFrom, tTo0, tBack, tLayout, tK, tUnstackAddTo>>
    /\ UNCHANGED <<reshapeVars, rowVars>>

ApplyUnstack(addTo) ==
    /\ tpc = "stacked"
    /\ tBack' = Unstack(AllFrames, tLayout, tTo, tBack, tK, addTo)
    /\ tUnstackAddTo' = addTo
    /\ tpc' = "unstacked"
    /\ UNCHANGED <<tFrom, tTo, tTo0, tLayout, tK, tLog>>
    /\ UNCHANGED <<reshapeVars, rowVars>>

NextShuffle ==
    \/ \E addTo \in BOOLEAN : ApplyStack(addTo)
    \/ \E addTo \in BOOLEAN : ApplyUnstack(addTo)

SpecShuffle == InitShuffle /\ [][NextShuffle]_vars

\* The axes of the harness run.
tD == tFrom.rows
tS == tLayout.S
tT == tLayout.T

\* C1: for all D, S, K, T >= 1 and every source x, Stack (overwrite) followed by
\* Unstack (overwrite) with the same D, S, K, T gives back x element for element.
C1_RoundTrip ==
    (tpc = "unstacked" /\ tLog[Len(tLog)] = FALSE /\ tUnstackAddTo = FALSE)
        => tBack = tFrom

C1_Witness ==
    /\ tpc = "unstacked" /\ tLog = <<FALSE>> /\ tUnstackAddTo = FALSE
    /\ tD = 2 /\ tS = 2 /\ tK = 3 /\ tT = 2
    /\ tFrom = Mat(2, 12, 1)

\* C2: Stack (overwrite) puts input element (d, s + S*(k + K*t)) at output
\* element (d + D*k, s + S*t), for all d < D, k < K, s < S, t < T.
C2_StackPlacement ==
    (tpc = "stacked" /\ tLog[Len(tLog)] = FALSE)
        => \A d \in 0..(tD - 1), k \in 0..(tK - 1), s \in 0..(tS - 1), t \in 0..(tT - 1) :
              At(tTo, d + tD * k, s + tS * t) = At(tFrom, d, s + tS * (k + tK * t))

C2_Witness ==
    /\ tpc = "stacked" /\ tLog = <<FALSE>>
    /\ tD = 2 /\ tS = 2 /\ tK = 3 /\ tT = 2
    /\ tTo.rows = 6 /\ tTo.cols = 4
    /\ tFrom = Mat(2, 12, 1)
    /\ At(tTo, 3, 1) = At(tFrom, 1, 3)

\* What one accumulating Stack call leaves in a destination that starts at zero.
SingleAccumulation == Stack(AllFrames, tLayout, tFrom, Mat(tTo0.rows, tTo0.cols, 0), tK, TRUE)

\* C16: accumulation is linear.  Two Stack calls with addTo = true (the kernel
\* keeps the destination with weight 1) from the same source into a destination
\* that starts at zero leave every destination element equal to exactly twice
\* what a single accumulating call produces.
C16_AccumulateTwiceIsDouble ==
    (tpc = "stacked" /\ tLog = <<TRUE, TRUE>> /\ tTo0 = Mat(tTo0.rows, tTo0.cols, 0))
        => \A i \in 0..(tTo.rows - 1), j \in 0..(tTo.cols - 1) :
              At(tTo, i, j) = 2 * At(SingleAccumulation, i, j)

C16_Witness ==
    /\ tpc = "stacked" /\ tLog = <<TRUE, TRUE>> /\ tTo0 = Mat(6, 4, 0)
    /\ tD = 2 /\ tS = 2 /\ tK = 3 /\ tT = 2
    /\ tFrom = Mat(2, 12, 1)
    /\ At(tTo, 3, 1) = 2 * At(tFrom, 1, 3)
    /\ At(tTo, 3, 1) # 0

\* ------------------------------------------------------------ the ReshapeNode

\* Bounds of the node's scenarios.
MaxRows == 3        \* input row counts 1..MaxRows
MaxNumRows == 3     \* configured target row counts 0..MaxNumRows
MaxCols == 3        \* column counts of an input without layout
MaxSeq == 2         \* parallel sequences of an input with layout
MaxSteps == 3       \* time steps of an input with layout
MaxGarbage == 1     \* values 0..MaxGarbage a division by zero may leave behind
MaxEnvSteps == 1    \* how often the environment replaces the input

\* The input node: with a layout its columns are the S*T frames of the minibatch.
InputNode(rows, cols, layout) ==
    [FunctionValues |-> Mat(rows, cols, 1), GradientValues |-> Mat(rows, cols, 0), MBLayout |-> layout]

InputNodes ==
    {InputNode(r, c, NullLayout) : r \in 1..MaxRows, c \in 1..MaxCols}
        \cup {InputNode(r, S * T, Layout(S, T)) : r \in 1..MaxRows, S \in 1..MaxSeq, T \in 1..MaxSteps}

ImageLayouts == {ImageLayout(0, 0, 0), ImageLayout(1, 1, 0), ImageLayout(1, 2, 1)}

GetNumRows(node) == node.FunctionValues.rows
GetNumCols(node) == node.FunctionValues.cols
HasMBLayout(node) == ~node.MBLayout.isNull

\* size_t division and remainder.  By zero they are undefined: the instruction
\* traps, or the build goes on with whatever value is left in the register.
DivZeroValues == 0..MaxGarbage
Quotients(a, b) == IF b = 0 THEN DivZeroValues ELSE {a \div b}
Remainders(a, b) == IF b = 0 THEN DivZeroValues ELSE {a % b}

\* ComputationNode::Resize: same dimensions keep the buffer, others reallocate it.
Resize(m, numRows, numCols) ==
    IF m.rows = numRows /\ m.cols = numCols
    THEN m
    ELSE [rows |-> numRows, cols |-> numCols, data |-> [k \in 1..(numRows * numCols) |-> Indeterminate]]

\* ComputationNode::VerifySize: a logic error unless the buffer has these dimensions.
VerifySizeOK(m, numRows, numCols) == m.rows = numRows /\ m.cols = numCols

\* A layout as make_shared<MBLayout>() leaves it: one sequence, no time steps.
FreshLayout == Layout(1, 0)

\* do we stack (multiple frames into one)
weStack == m_numRows > GetNumRows(Inputs0)

\* factor by which we stack or unstack (the values the division can yield)
factor ==
    IF m_numRows > GetNumRows(Inputs0)
    THEN {m_numRows \div GetNumRows(Inputs0)}
    ELSE Quotients(GetNumRows(Inputs0), m_numRows)

\* A plausible slip: only the grouping direction is checked.
NotMultipleOnly(rows, rem) == m_numRows > rows /\ m_numRows % rows # 0

\* Validate's first check; rem is what rows % m_numRows evaluated to.
NotMultipleOrDivisor(rows, rem) ==
    \/ (m_numRows > rows /\ m_numRows % rows # 0)   \* grouping columns
    \/ (m_numRows < rows /\ rem # 0)                \* splitting columns

\* A plausible slip: the element count is never compared.
DimensionMismatchUnchecked(rows, cols, newCols) == FALSE

\* Validate's second check, made only while the node has no layout of its own.
DimensionMismatch(rows, cols, newCols) ==
    m_pMBLayout.isNull /\ rows * cols # m_numRows * newCols

\* ReshapeNode::InferImageDimensions: the completed m_imageLayout, or a runtime error.
InferImageDimensions(il, numRows) ==
    IF il.width > 0
    THEN IF il.height > 0
         THEN IF il.channels > 0
              THEN [ok |-> il.width * il.height * il.channels = numRows, layout |-> il]
              ELSE [ok |-> numRows % (il.width * il.height) = 0,
                    layout |-> [il EXCEPT !.channels = numRows \div (il.width * il.height)]]
         ELSE IF il.channels > 0
              THEN [ok |-> numRows % (il.width * il.channels) = 0,
                    layout |-> [il EXCEPT !.height = numRows \div (il.width * il.channels)]]
              ELSE [ok |-> FALSE, layout |-> il]
    ELSE IF il.height > 0
         THEN IF il.channels > 0
              THEN [ok |-> numRows % (il.height * il.channels) = 0,
                    layout |-> [il EXCEPT !.width = numRows \div (il.height * il.channels)]]
              ELSE [ok |-> FALSE, layout |-> il]
         ELSE [ok |-> il.channels = 0, layout |-> il]

\* ReshapeNode::InferImageDimsFromInputs: the output image layout it settles on.
OutputImageLayout(il, numRows) ==
    IF il.width = 0 \/ il.height = 0 \/ il.channels = 0
    THEN ImageLayout(1, 1, numRows)
    ELSE il

\* A plausible slip: the long vector is read back to front.
FlatCopyReversed(dst, src) ==
    LET n == GetNumElements(src)
        dstVec == Reshaped(dst, n, 1)
        srcVec == Reshaped(src, n, 1)
    IN  [dst EXCEPT !.data = [k \in 1..n |-> At(srcVec, n - k, 0)]]

\* FunctionValues().Reshaped(n, 1).SetValue(input.Reshaped(n, 1)): copy the values
\* as one long vector, element i of the one to element i of the other.
FlatCopy(dst, src) ==
    LET n == GetNumElements(src)
        dstVec == Reshaped(dst, n, 1)
        srcVec == Reshaped(src, n, 1)
    IN  [dst EXCEPT !.data = [k \in 1..n |-> At(srcVec, k - 1, 0)]]

\* dst.Reshaped(n, 1) += src.Reshaped(n, 1)
FlatAdd(dst, src) ==
    LET n == GetNumElements(src)
        dstVec == Reshaped(dst, n, 1)
        srcVec == Reshaped(src, n, 1)
    IN  [dst EXCEPT !.data = [k \in 1..n |-> At(dstVec, k - 1, 0) + At(srcVec, k - 1, 0)]]

Call(op, final, frameRange) == [op |-> op, final |-> final, frameRange |-> frameRange]

InitReshape ==
    /\ HarnessIdle
    /\ RowNodesIdle
    /\ m_numRows \in 0..MaxNumRows
    /\ assertsEnabled \in BOOLEAN
    /\ m_imageLayout \in ImageLayouts
    /\ m_outputImageLayout = ImageLayout(0, 0, 0)
    /\ m_functionValues = Mat(0, 0, 0)
    /\ m_gradientValues = Mat(0, 0, 0)
    /\ m_pMBLayout = NullLayout
    /\ Inputs0 \in InputNodes
    /\ pc = "unvalidated"
    /\ err = "none"
    /\ lastCall = Call("ReshapeNode", FALSE, AllFrames)
    /\ gradPrep = [G |-> "none", g0 |-> 0]
    /\ envSteps = 0

\* ReshapeNode::Validate
Validate(isFinalValidationPass) ==
    /\ pc \in {"unvalidated", "validated"}
    /\ lastCall' = Call("Validate", isFinalValidationPass, AllFrames)
    /\ UNCHANGED <<harnessVars, rowVars, configVars, Inputs0, gradPrep, envSteps, m_gradientValues>>
    /\ LET rows == GetNumRows(Inputs0)
           cols == GetNumCols(Inputs0)
       IN  \/ /\ m_numRows = 0      \* cols * rows / m_numRows traps
              /\ err' = "trap" /\ pc' = "dead"
              /\ UNCHANGED <<m_functionValues, m_pMBLayout, m_imageLayout, m_outputImageLayout>>
           \/ \E newCols \in Quotients(cols * rows, m_numRows), rem \in Remainders(rows, m_numRows) :
                IF isFinalValidationPass /\ NotMultipleOrDivisor(rows, rem)
                THEN /\ err' = "InvalidArgument" /\ pc' = "failed"
                     /\ UNCHANGED <<m_functionValues, m_pMBLayout, m_imageLayout, m_outputImageLayout>>
                ELSE IF isFinalValidationPass /\ DimensionMismatch(rows, cols, newCols)
                THEN /\ err' = "LogicError" /\ pc' = "failed"
                     /\ UNCHANGED <<m_functionValues, m_pMBLayout, m_imageLayout, m_outputImageLayout>>
                ELSE /\ m_functionValues' = Resize(m_functionValues, m_numRows, newCols)
                     /\ IF HasMBLayout(Inputs0)
                        THEN /\ m_pMBLayout' = IF m_pMBLayout.isNull THEN FreshLayout ELSE m_pMBLayout
                             /\ LET img == InferImageDimensions(m_imageLayout, m_numRows)
                                IN  IF img.ok
                                    THEN /\ m_imageLayout' = img.layout
                                         /\ m_outputImageLayout' = OutputImageLayout(img.layout, m_numRows)
                                         /\ err' = "none"
                                         /\ pc' = IF isFinalValidationPass THEN "validated" ELSE "unvalidated"
                                    ELSE /\ err' = "RuntimeError" /\ pc' = "failed"
                                         /\ UNCHANGED <<m_imageLayout, m_outputImageLayout>>
                        ELSE IF assertsEnabled /\ ~m_pMBLayout.isNull
                        THEN /\ err' = "abort" /\ pc' = "dead"     \* assert(!m_pMBLayout)
                             /\ UNCHANGED <<m_pMBLayout, m_imageLayout, m_outputImageLayout>>
                        ELSE /\ UNCHANGED m_pMBLayout
                             /\ LET img == InferImageDimensions(m_imageLayout, m_numRows)
                                IN  IF img.ok
                                    THEN /\ m_imageLayout' = img.layout
                                         /\ m_outputImageLayout' = OutputImageLayout(img.layout, m_numRows)
                                         /\ err' = "none"
                                         /\ pc' = IF isFinalValidationPass THEN "validated" ELSE "unvalidated"
                                    ELSE /\ err' = "RuntimeError" /\ pc' = "failed"
                                         /\ UNCHANGED <<m_imageLayout, m_outputImageLayout>>

\* ReshapeNode::UpdateFunctionMBSize
UpdateFunctionMBSize ==
    /\ pc = "validated"
    /\ lastCall' = Call("UpdateFunctionMBSize", FALSE, AllFrames)
    /\ UNCHANGED <<harnessVars, rowVars, configVars, Inputs0, gradPrep, envSteps>>
    /\ UNCHANGED <<m_gradientValues, m_pMBLayout, m_imageLayout, m_outputImageLayout>>
    /\ LET rows == GetNumRows(Inputs0)
           cols == GetNumCols(Inputs0)
       IN  \/ /\ m_numRows = 0
              /\ err' = "trap" /\ pc' = "dead"
              /\ UNCHANGED m_functionValues
           \/ \E newCols \in Quotients(cols * rows, m_numRows) :
                IF m_pMBLayout.isNull
                THEN /\ UNCHANGED m_functionValues
                     /\ IF VerifySizeOK(m_functionValues, m_numRows, newCols)
                        THEN err' = "none" /\ pc' = "sized"
                        ELSE err' = "LogicError" /\ pc' = "failed"
                ELSE /\ m_functionValues' = Resize(m_functionValues, m_numRows, newCols)
                     /\ err' = "none" /\ pc' = "sized"

\* The time-step count of the derived layout.
NumTimeSteps == Quotients(Inputs0.MBLayout.T * GetNumRows(Inputs0), m_numRows)

\* ReshapeNode::OnEvaluateBeginIteration
OnEvaluateBeginIteration ==
    /\ pc = "sized"
    /\ lastCall' = Call("OnEvaluateBeginIteration", FALSE, AllFrames)
    /\ UNCHANGED <<harnessVars, rowVars, configVars, Inputs0, gradPrep, envSteps>>
    /\ UNCHANGED <<m_functionValues, m_gradientValues, m_imageLayout, m_outputImageLayout>>
    /\ \/ /\ m_pMBLayout.isNull
          /\ err' = "none" /\ pc' = "begun"
          /\ UNCHANGED m_pMBLayout
       \/ /\ ~m_pMBLayout.isNull
          /\ \/ ~HasMBLayout(Inputs0)   \* the input's null layout is dereferenced
             \/ m_numRows = 0           \* the division traps
          /\ err' = "trap" /\ pc' = "dead"
          /\ UNCHANGED m_pMBLayout
       \/ /\ ~m_pMBLayout.isNull
          /\ HasMBLayout(Inputs0)
          /\ \E steps \in NumTimeSteps :
                /\ m_pMBLayout' = Layout(Inputs0.MBLayout.S, steps)
                /\ IF weStack
                   THEN IF steps # 1
                        THEN err' = "LogicError" /\ pc' = "failed"
                        ELSE err' = "none" /\ pc' = "begun"
                   ELSE IF Inputs0.MBLayout.T # 1
                        THEN err' = "LogicError" /\ pc' = "failed"
                        ELSE err' = "none" /\ pc' = "begun"

\* ReshapeNode::EvaluateThisNode
EvaluateThisNode(frameRange) ==
    /\ pc = "begun"
    /\ lastCall' = Call("EvaluateThisNode", FALSE, frameRange)
    /\ UNCHANGED <<harnessVars, rowVars, configVars, Inputs0, gradPrep, envSteps>>
    /\ UNCHANGED <<m_gradientValues, m_pMBLayout, m_imageLayout, m_outputImageLayout>>
    /\ LET rows == GetNumRows(Inputs0)
           cols == GetNumCols(Inputs0)
           from == Inputs0.FunctionValues
       IN  \/ /\ m_numRows = 0
              /\ err' = "trap" /\ pc' = "dead"
              /\ UNCHANGED m_functionValues
           \/ \E newCols \in Quotients(cols * rows, m_numRows), K \in factor :
                IF assertsEnabled /\ newCols * m_numRows # cols * rows
                THEN /\ err' = "abort" /\ pc' = "dead"    \* assert(newCols * m_numRows == cols * rows)
                     /\ UNCHANGED m_functionValues
                ELSE IF ~VerifySizeOK(m_functionValues, m_numRows, newCols)
                THEN /\ err' = "LogicError" /\ pc' = "failed"
                     /\ UNCHANGED m_functionValues
                ELSE IF m_pMBLayout.isNull
                THEN \* no layout case: this is indeed just a reshape
                     IF GetNumElements(m_functionValues) = GetNumElements(from)
                     THEN /\ m_functionValues' = FlatCopy(m_functionValues, from)
                          /\ err' = "none" /\ pc' = "evaluated"
                     ELSE /\ err' = "OutOfContract" /\ pc' = "failed"
                          /\ UNCHANGED m_functionValues
                ELSE IF ~IsAllFrames(frameRange)
                THEN /\ err' = "InvalidArgument" /\ pc' = "failed"
                     /\ UNCHANGED m_functionValues
                ELSE IF weStack
                THEN IF ShuffleInContract(from, m_functionValues, rows, m_pMBLayout.S, K, m_pMBLayout.T)
                     THEN /\ m_functionValues' = Stack(frameRange, m_pMBLayout, from, m_functionValues, K, FALSE)
                          /\ err' = "none" /\ pc' = "evaluated"
                     ELSE /\ err' = "OutOfContract" /\ pc' = "failed"
                          /\ UNCHANGED m_functionValues
                ELSE IF ShuffleInContract(from, m_functionValues, m_functionValues.rows,
                                          Inputs0.MBLayout.S, K, Inputs0.MBLayout.T)
                     THEN /\ m_functionValues' = Unstack(frameRange, Inputs0.MBLayout, from, m_functionValues, K, FALSE)
                          /\ err' = "none" /\ pc' = "evaluated"
                     ELSE /\ err' = "OutOfContract" /\ pc' = "failed"
                          /\ UNCHANGED m_functionValues

\* The driver fills the gradient buffers before it backpropagates: the output
\* gradient G (some gradient, or the forward result itself) and the gradient g0
\* the input has already collected (zero, or earlier contributions).
PrepareGradients(G, g0) ==
    /\ pc = "evaluated"
    /\ lastCall' = Call("PrepareGradients", FALSE, AllFrames)
    /\ m_gradientValues' = IF G = "forward"
                           THEN m_functionValues
                           ELSE Mat(m_functionValues.rows, m_functionValues.cols, 1)
    /\ Inputs0' = [Inputs0 EXCEPT !.GradientValues = Mat(GetNumRows(Inputs0), GetNumCols(Inputs0), g0)]
    /\ gradPrep' = [G |-> G, g0 |-> g0]
    /\ err' = "none" /\ pc' = "gradready"
    /\ UNCHANGED <<harnessVars, rowVars, configVars, envSteps>>
    /\ UNCHANGED <<m_functionValues, m_pMBLayout, m_imageLayout, m_outputImageLayout>>

\* A plausible slip: the shuffle is called with addTo = false, as in the forward pass.
InputGradientOverwritten(frameRange, K) ==
    IF weStack
    THEN Unstack(frameRange, m_pMBLayout, m_gradientValues, Inputs0.GradientValues, K, FALSE)
    ELSE Stack(frameRange, Inputs0.MBLayout, m_gradientValues, Inputs0.GradientValues, K, FALSE)

\* The layout case of ComputeInputPartial: the opposite shuffle, adding to the input gradient.
InputGradient(frameRange, K) ==
    IF weStack
    THEN Unstack(frameRange, m_pMBLayout, m_gradientValues, Inputs0.GradientValues, K, TRUE)
    ELSE Stack(frameRange, Inputs0.MBLayout, m_gradientValues, Inputs0.GradientValues, K, TRUE)

\* ReshapeNode::ComputeInputPartial
ComputeInputPartial(frameRange) ==
    /\ pc = "gradready"
    /\ lastCall' = Call("ComputeInputPartial", FALSE, frameRange)
    /\ UNCHANGED <<harnessVars, rowVars, configVars, gradPrep, envSteps, nodeVars>>
    /\ LET rows == GetNumRows(Inputs0)
           cols == GetNumCols(Inputs0)
           to == Inputs0.GradientValues
       IN  \/ /\ m_numRows = 0
              /\ err' = "trap" /\ pc' = "dead"
              /\ UNCHANGED Inputs0
           \/ \E newCols \in Quotients(cols * rows, m_numRows), K \in factor :
                IF m_pMBLayout.isNull
                THEN IF GetNumElements(m_gradientValues) = GetNumElements(to)
                     THEN /\ Inputs0' = [Inputs0 EXCEPT !.GradientValues = FlatAdd(to, m_gradientValues)]
                          /\ err' = "none" /\ pc' = "backpropped"
                     ELSE /\ err' = "OutOfContract" /\ pc' = "failed"
                          /\ UNCHANGED Inputs0
                ELSE IF ShuffleInContract(m_gradientValues, to,
                                          IF weStack THEN rows ELSE m_gradientValues.rows,
                                          IF weStack THEN m_pMBLayout.S ELSE Inputs0.MBLayout.S, K,
                                          IF weStack THEN m_pMBLayout.T ELSE Inputs0.MBLayout.T)
                     THEN /\ Inputs0' = [Inputs0 EXCEPT !.GradientValues = InputGradient(frameRange, K)]
                          /\ err' = "none" /\ pc' = "backpropped"
                     ELSE /\ err' = "OutOfContract" /\ pc' = "failed"
                          /\ UNCHANGED Inputs0

\* The reader delivers the next minibatch: the same rows, other S and T.
NewMinibatch(S, T) ==
    /\ pc \in {"validated", "evaluated", "backpropped"}
    /\ HasMBLayout(Inputs0)
    /\ envSteps < MaxEnvSteps
    /\ Inputs0' = InputNode(GetNumRows(Inputs0), S * T, Layout(S, T))
    /\ envSteps' = envSteps + 1
    /\ lastCall' = Call("NewMinibatch", FALSE, AllFrames)
    /\ err' = "none" /\ pc' = "validated"
    /\ UNCHANGED <<harnessVars, rowVars, configVars, gradPrep, nodeVars>>

\* The network is edited: the node gets another input and must be validated again.
InputChanged(input) ==
    /\ pc \in {"validated", "failed"}
    /\ lastCall.op = "Validate"
    /\ envSteps < MaxEnvSteps
    /\ input # Inputs0
    /\ Inputs0' = input
    /\ envSteps' = envSteps + 1
    /\ lastCall' = Call("InputChanged", FALSE, AllFrames)
    /\ err' = "none" /\ pc' = "unvalidated"
    /\ UNCHANGED <<harnessVars, rowVars, configVars, gradPrep, nodeVars>>

Next ==
    \/ \E isFinalValidationPass \in BOOLEAN : Validate(isFinalValidationPass)
    \/ UpdateFunctionMBSize
    \/ OnEvaluateBeginIteration
    \/ \E frameRange \in {AllFrames, FrameAt(0)} : EvaluateThisNode(frameRange)
    \/ \E prep \in {<<"some", 2>>, <<"forward", 0>>} : PrepareGradients(prep[1], prep[2])
    \/ ComputeInputPartial(AllFrames)
    \/ \E S \in 1..MaxSeq, T \in 1..MaxSteps : NewMinibatch(S, T)
    \/ \E input \in InputNodes : InputChanged(input)

Spec == InitReshape /\ [][Next]_vars


\* ------------------------------------------------------- the node's claims

rows0 == GetNumRows(Inputs0)
cols0 == GetNumCols(Inputs0)

\* C3 as stated (for m_numRows >= 1, where newCols is defined): after every
\* validation that completes without error, final pass or not, with or without
\* layout, the output has as many elements as the input.
C3_ConservationEveryPass ==
    (lastCall.op = "Validate" /\ err = "none" /\ m_numRows >= 1)
        => /\ m_functionValues.rows = m_numRows
           /\ m_functionValues.rows * m_functionValues.cols = rows0 * cols0

\* C3, amended: after every final validation pass that completes without error
\* and leaves the node without a layout, output dimensions (numRows, newCols)
\* satisfy numRows * newCols == rows * cols.
C3_ConservationFinalNoLayout ==
    (lastCall.op = "Validate" /\ lastCall.final /\ err = "none" /\ m_pMBLayout.isNull)
        => /\ m_functionValues.rows = m_numRows
           /\ m_functionValues.rows * m_functionValues.cols = rows0 * cols0

C3_Witness ==
    /\ lastCall.op = "Validate" /\ lastCall.final /\ err = "none" /\ m_pMBLayout.isNull
    /\ rows0 = 3 /\ cols0 = 2 /\ m_numRows = 1
    /\ m_functionValues.rows = 1 /\ m_functionValues.cols = 6

\* C4: on the final validation pass, a numRows that is neither an integer multiple
\* nor an integer divisor of the input row count ends the validation with the
\* configuration error (InvalidArgument), and the output buffer is not resized.
C4_RejectsNonMultiple ==
    [][(/\ lastCall'.op = "Validate" /\ lastCall'.final
        /\ \/ (m_numRows > rows0 /\ m_numRows % rows0 # 0)
           \/ (m_numRows >= 1 /\ m_numRows < rows0 /\ rows0 % m_numRows # 0))
          => /\ err' = "InvalidArgument"
             /\ m_functionValues' = m_functionValues
             /\ m_pMBLayout' = m_pMBLayout]_vars

C4_Witness ==
    /\ lastCall.op = "Validate" /\ lastCall.final /\ err = "InvalidArgument"
    /\ m_numRows = 2 /\ rows0 = 3 /\ cols0 = 3
    /\ m_functionValues.rows = 2 /\ m_functionValues.cols # (cols0 * rows0) \div m_numRows

\* C5: forward evaluation of an input without layout is an order-preserving
\* linear reinterpretation: the column-major element sequence of the
\* numRows x newCols output equals that of the rows x cols input, and the
\* input is left unchanged.
C5_FlatReinterpretation ==
    [][(lastCall'.op = "EvaluateThisNode" /\ err' = "none" /\ ~HasMBLayout(Inputs0))
          => /\ Inputs0' = Inputs0
             /\ m_functionValues'.rows = m_numRows
             /\ m_functionValues'.rows * m_functionValues'.cols = rows0 * cols0
             /\ \A i \in 0..(rows0 * cols0 - 1) :
                    At(m_functionValues', i % m_numRows, i \div m_numRows)
                        = At(Inputs0.FunctionValues, i % rows0, i \div rows0)]_vars

C5_Witness ==
    /\ lastCall.op = "EvaluateThisNode" /\ err = "none" /\ ~HasMBLayout(Inputs0)
    /\ rows0 = 1 /\ cols0 = 2 /\ m_numRows = 2
    /\ m_functionValues.rows = 2 /\ m_functionValues.cols = 1
    /\ At(m_functionValues, 1, 0) = At(Inputs0.FunctionValues, 0, 1)

\* C6: in the layout case backward applies the opposite shuffle direction of
\* forward and accumulates: with forward placing input element p at output
\* element q, backpropagation leaves the input gradient at p equal to its old
\* value g0 plus the output gradient G at q; backpropagating G = forward(x) into
\* a zeroed input gradient yields exactly x.
C6_BackwardIsInverse ==
    [][(lastCall'.op = "ComputeInputPartial" /\ err' = "none" /\ ~m_pMBLayout.isNull)
          => LET x == Inputs0.FunctionValues
                 y == m_functionValues
                 g0 == Inputs0.GradientValues
                 g1 == Inputs0'.GradientValues
                 G == m_gradientValues
                 S == Inputs0.MBLayout.S
             IN  /\ g1.rows = g0.rows /\ g1.cols = g0.cols
                 /\ IF weStack
                    THEN LET D == rows0
                             K == m_numRows \div rows0
                             T == m_pMBLayout.T
                         IN  \A d \in 0..(D - 1), k \in 0..(K - 1), s \in 0..(S - 1), t \in 0..(T - 1) :
                                /\ At(y, d + D * k, s + S * t) = At(x, d, s + S * (k + K * t))
                                /\ At(g1, d, s + S * (k + K * t))
                                      = At(g0, d, s + S * (k + K * t)) + At(G, d + D * k, s + S * t)
                    ELSE LET D == m_numRows
                             K == rows0 \div m_numRows
                             T == Inputs0.MBLayout.T
                         IN  \A d \in 0..(D - 1), k \in 0..(K - 1), s \in 0..(S - 1), t \in 0..(T - 1) :
                                /\ At(y, d, s + S * (k + K * t)) = At(x, d + D * k, s + S * t)
                                /\ At(g1, d + D * k, s + S * t)
                                      = At(g0, d + D * k, s + S * t) + At(G, d, s + S * (k + K * t))
                 /\ (gradPrep.G = "forward" /\ gradPrep.g0 = 0) => g1 = x]_vars

C6_Witness ==
    /\ lastCall.op = "ComputeInputPartial" /\ err = "none" /\ ~m_pMBLayout.isNull
    /\ weStack /\ rows0 = 1 /\ m_numRows = 3 /\ Inputs0.MBLayout = Layout(2, 3)
    /\ gradPrep = [G |-> "forward", g0 |-> 0]
    /\ Inputs0.GradientValues = Inputs0.FunctionValues
    /\ m_functionValues.data # Inputs0.FunctionValues.data

\* C7 (for m_numRows >= 1): whenever the per-pass layout derivation completes
\* without error, the derived layout has the input's S, T' = T * rows / numRows
\* time steps, and S * T' is the column count of the resized output buffer.
C7_DerivedLayoutCoversOutput ==
    (lastCall.op = "OnEvaluateBeginIteration" /\ err = "none" /\ HasMBLayout(Inputs0) /\ m_numRows >= 1)
        => /\ ~m_pMBLayout.isNull
           /\ m_pMBLayout.S = Inputs0.MBLayout.S
           /\ m_pMBLayout.T = (Inputs0.MBLayout.T * rows0) \div m_numRows
           /\ m_pMBLayout.S * m_pMBLayout.T = m_functionValues.cols

\* C8 (for m_numRows >= 1): the layout derivation lets only the exact 1 <-> K
\* case proceed: stacking only when the input has exactly K = numRows / rows steps
\* per sequence, unstacking only when it has exactly 1; no pass proceeds that
\* drops input frames.
C8_OnlyExactCollapse ==
    (lastCall.op = "OnEvaluateBeginIteration" /\ err = "none" /\ HasMBLayout(Inputs0) /\ m_numRows >= 1)
        => /\ IF weStack
              THEN Inputs0.MBLayout.T = m_numRows \div rows0
              ELSE Inputs0.MBLayout.T = 1
           /\ GetNumElements(m_functionValues) = GetNumElements(Inputs0.FunctionValues)

\* C9 (for m_numRows >= 1): forward evaluation in the layout case with a range
\* that is not 'all frames' ends with InvalidArgument and leaves the output
\* buffer unchanged.
C9_PartialRangeRejected ==
    [][(/\ lastCall'.op = "EvaluateThisNode" /\ ~IsAllFrames(lastCall'.frameRange)
        /\ ~m_pMBLayout.isNull /\ m_numRows >= 1)
          => /\ err' = "InvalidArgument"
             /\ m_functionValues' = m_functionValues]_vars

\* C10: after a validation call that completes, whatever the input did between
\* the calls, the output carries a layout if and only if the input carries one.
C10_LayoutPresencePreserved ==
    (lastCall.op = "Validate" /\ err = "none")
        => (~m_pMBLayout.isNull <=> HasMBLayout(Inputs0))


\* C17: on the final validation pass of a Reshape whose input has no layout and
\* whose numRows passes the multiple-or-divisor check, an element-count mismatch
\* rows * cols # numRows * newCols ends the pass with LogicError (not the
\* InvalidArgument of the row-count check) and leaves the output buffer as it
\* was; for an input with a layout the pass never ends with LogicError.
C17_MismatchIsLogicError ==
    [][(lastCall'.op = "Validate" /\ lastCall'.final /\ m_numRows >= 1
            /\ ~NotMultipleOrDivisor(rows0, rows0 % m_numRows))
          => /\ (~HasMBLayout(Inputs0) /\ rows0 * cols0 # m_numRows * ((cols0 * rows0) \div m_numRows))
                    => (err' = "LogicError" /\ m_functionValues' = m_functionValues)
             /\ HasMBLayout(Inputs0) => err' # "LogicError"]_vars

\* C19: for every configured m_numRows, the constructor's default 0 included,
\* and on final and non-final passes alike, Validate and UpdateFunctionMBSize
\* never divide by zero when they compute newCols: the divisor is at least 1 and
\* the call ends with the resized output or one of the declared errors.
C19_NewColsNeverDividesByZero ==
    (lastCall.op \in {"Validate", "UpdateFunctionMBSize"})
        => /\ m_numRows >= 1
           /\ err \in {"none", "InvalidArgument", "LogicError", "RuntimeError", "abort"}


\* ------------------------------------------------------------ the row nodes

\* Bounds of the row nodes' scenarios.
SizeBits == 4           \* width of size_t in the model (64 in the build)
MaxStartIndex == 2      \* RowSlice start rows 0..MaxStartIndex, and the largest size_t
MaxSliceRows == 3       \* RowSlice row counts 0..MaxSliceRows
MaxFrames == 2          \* time steps of a row node's input with layout

\* size_t arithmetic wraps around.
SizeModulus == 2 ^ SizeBits
SizeT(x) == x % SizeModulus

\* A matrix given by its elements: f[i, j] for row i and column j.
MatOf(numRows, numCols, f) ==
    [rows |-> numRows, cols |-> numCols,
     data |-> [k \in 1..(numRows * numCols) |-> f[(k - 1) % numRows, (k - 1) \div numRows]]]

Ones(numRows, numCols) ==
    MatOf(numRows, numCols, [i \in 0..(numRows - 1), j \in 0..(numCols - 1) |-> 1])

\* Matrix::ColumnSlice, read: the columns startColumn .. startColumn + numCols - 1.
ColumnSlice(m, startColumn, numCols) ==
    MatOf(m.rows, numCols,
          [i \in 0..(m.rows - 1), j \in 0..(numCols - 1) |-> At(m, i, startColumn + j)])

\* Writing through a column slice: a slice is a view of the columns it covers.
WithColumnSlice(m, startColumn, slice) ==
    MatOf(m.rows, m.cols,
          [i \in 0..(m.rows - 1), j \in 0..(m.cols - 1) |->
              IF j >= startColumn /\ j < startColumn + slice.cols
              THEN At(slice, i, j - startColumn)
              ELSE At(m, i, j)])

\* The columns a frame range addresses under a layout: all of them, or the S
\* columns of time step t.
StartColumn(frameRange, pMBLayout) ==
    IF IsAllFrames(frameRange) THEN 0 ELSE frameRange.t * pMBLayout.S

NumSliceCols(frameRange, pMBLayout, m) ==
    IF IsAllFrames(frameRange) THEN m.cols ELSE pMBLayout.S

\* ValueSlice(frameRange) / GradientSlice(frameRange), read.
SliceOf(m, frameRange, pMBLayout) ==
    ColumnSlice(m, StartColumn(frameRange, pMBLayout), NumSliceCols(frameRange, pMBLayout, m))

\* ValueSlice(frameRange) / GradientSlice(frameRange), after an operation left 'slice' in it.
WriteSlice(m, frameRange, pMBLayout, slice) ==
    WithColumnSlice(m, StartColumn(frameRange, pMBLayout), slice)

\* The frame ranges a driver may hand to a node whose input has this layout.
FrameRanges(pMBLayout) ==
    {AllFrames} \cup (IF pMBLayout.isNull THEN {} ELSE {FrameAt(t) : t \in 0..(pMBLayout.T - 1)})

\* us.AssignRowSliceValuesOf(a, startIndex, numRows): us becomes rows
\* [startIndex, startIndex + numRows) of a.
AssignRowSliceValuesOf(a, startIndex, numRows) ==
    MatOf(numRows, a.cols,
          [i \in 0..(numRows - 1), j \in 0..(a.cols - 1) |-> At(a, startIndex + i, j)])

\* us.AddToRowSliceValuesOf(a, startIndex, numRows): a is added to rows
\* [startIndex, startIndex + numRows) of us.
AddToRowSliceValuesOf(us, a, startIndex, numRows) ==
    MatOf(us.rows, us.cols,
          [i \in 0..(us.rows - 1), j \in 0..(us.cols - 1) |->
              IF i >= startIndex /\ i < startIndex + numRows
              THEN At(us, i, j) + At(a, i - startIndex, j)
              ELSE At(us, i, j)])

\* us.AssignToRowSliceValuesOf(a, startIndex, numRows): a is copied to rows
\* [startIndex, startIndex + numRows) of us.
AssignToRowSliceValuesOf(us, a, startIndex, numRows) ==
    MatOf(us.rows, us.cols,
          [i \in 0..(us.rows - 1), j \in 0..(us.cols - 1) |->
              IF i >= startIndex /\ i < startIndex + numRows
              THEN At(a, i - startIndex, j)
              ELSE At(us, i, j)])

\* us.AddWithRowSliceValuesOf(a, startIndex, numRows): rows
\* [startIndex, startIndex + numRows) of a are added to us.
AddWithRowSliceValuesOf(us, a, startIndex, numRows) ==
    MatOf(us.rows, us.cols,
          [i \in 0..(us.rows - 1), j \in 0..(us.cols - 1) |->
              At(us, i, j) + At(a, startIndex + i, j)])

\* us.AssignRepeatOf(a, numRowRepeats, numColRepeats): us becomes a, tiled.
AssignRepeatOf(a, numRowRepeats, numColRepeats) ==
    MatOf(a.rows * numRowRepeats, a.cols * numColRepeats,
          [i \in 0..(a.rows * numRowRepeats - 1), j \in 0..(a.cols * numColRepeats - 1) |->
              At(a, i % a.rows, j % a.cols)])

\* The sum over the first n tiles of element (i, j) of each tile of a.
RECURSIVE SumOfTiles(_, _, _, _, _)
SumOfTiles(a, tileRows, i, j, n) ==
    IF n = 0 THEN 0
    ELSE SumOfTiles(a, tileRows, i, j, n - 1) + At(a, (n - 1) * tileRows + i, j)

\* us.AddToRowRepeatValuesOf(a, numRepeats): every tile of a is added to us.
AddToRowRepeatValuesOf(us, a, numRepeats) ==
    MatOf(us.rows, us.cols,
          [i \in 0..(us.rows - 1), j \in 0..(us.cols - 1) |->
              At(us, i, j) + SumOfTiles(a, us.rows, i, j, numRepeats)])

\* Inputs(i) and ChildrenSize() of the node.
Inputs(i) == IF i = 0 THEN Inputs0 ELSE MoreInputs[i]
ChildrenSize == 1 + Len(MoreInputs)

\* The inputs of a row node: without layout, or with a layout of S * T frames.
RowInputNodes ==
    {InputNode(r, c, NullLayout) : r \in 1..MaxRows, c \in 1..MaxCols}
        \cup {InputNode(r, S * T, Layout(S, T)) : r \in 1..MaxRows, S \in 1..MaxSeq, T \in 1..MaxFrames}

\* The fields of the ReshapeNode and of the shuffle harness while a row node runs.
OnlyRowNode ==
    /\ HarnessIdle
    /\ assertsEnabled = FALSE
    /\ m_imageLayout = ImageLayout(0, 0, 0)
    /\ envSteps = 0

\* A node as its constructor leaves it, before the first validation.
FreshNode(name) ==
    /\ m_outputImageLayout = ImageLayout(0, 0, 0)
    /\ m_functionValues = Mat(0, 0, 0)
    /\ m_gradientValues = Mat(0, 0, 0)
    /\ m_pMBLayout = NullLayout
    /\ pc = "unvalidated" /\ err = "none" /\ errNode = 0 - 1
    /\ lastCall = Call(name, FALSE, AllFrames)
    /\ gradPrep = [G |-> "none", g0 |-> 0]

\* InferMBLayoutFromInputsForStandardCase: the layout of the first input that has one.
RECURSIVE FirstLayoutFrom(_)
FirstLayoutFrom(i) ==
    IF i >= ChildrenSize THEN NullLayout
    ELSE IF HasMBLayout(Inputs(i)) THEN Inputs(i).MBLayout
    ELSE FirstLayoutFrom(i + 1)

InferMBLayoutFromInputsForStandardCase == FirstLayoutFrom(0)

\* InferImageDimsFromInput(0, true), then the node's own height: the image a
\* plain input of that many rows carries is 1 x rows x 1.
RowImageLayout(height) == ImageLayout(1, height, 1)

\* The driver fills the gradient buffers before it backpropagates: the output
\* gradient (all ones, or some gradient) and what every input has collected so
\* far (zero, or earlier contributions).
WithGradient(node, g0) ==
    [node EXCEPT !.GradientValues = Mat(GetNumRows(node), GetNumCols(node), g0)]

RowPrepareGradients(G, g0) ==
    /\ pc = "evaluated"
    /\ lastCall' = Call("PrepareGradients", FALSE, AllFrames)
    /\ m_gradientValues' = IF G = "ones"
                           THEN Ones(m_functionValues.rows, m_functionValues.cols)
                           ELSE Mat(m_functionValues.rows, m_functionValues.cols, 1)
    /\ Inputs0' = WithGradient(Inputs0, g0)
    /\ MoreInputs' = [i \in 1..Len(MoreInputs) |-> WithGradient(MoreInputs[i], g0)]
    /\ gradPrep' = [G |-> G, g0 |-> g0]
    /\ err' = "none" /\ pc' = "gradready"
    /\ UNCHANGED <<harnessVars, configVars, envSteps>>
    /\ UNCHANGED <<m_functionValues, m_pMBLayout, m_imageLayout, m_outputImageLayout>>
    /\ UNCHANGED <<m_startIndex, m_numRepeat, m_startRowIndices, errNode>>

GradientPreparations == {<<"ones", 0>>, <<"some", 2>>}

\* ----------------------------------------------------------------- RowSliceNode

InitRowSlice ==
    /\ OnlyRowNode
    /\ FreshNode("RowSliceNode")
    /\ m_startIndex \in (0..MaxStartIndex) \cup {SizeModulus - 1}
    /\ m_numRows \in 0..MaxSliceRows
    /\ Inputs0 \in RowInputNodes
    /\ MoreInputs = <<>>
    /\ m_numRepeat = 1 /\ m_startRowIndices = <<>>

\* Validate's check: the band ends beyond the input's rows.
RowSliceOutOfRange(rows) == rows < SizeT(m_startIndex + m_numRows)

\* RowSliceNode::Validate
RowSliceNode_Validate(isFinalValidationPass) ==
    /\ pc \in {"unvalidated", "validated"}
    /\ lastCall' = Call("Validate", isFinalValidationPass, AllFrames)
    /\ UNCHANGED <<harnessVars, rowVars, configVars, Inputs0, gradPrep, envSteps>>
    /\ UNCHANGED <<m_gradientValues, m_imageLayout>>
    /\ IF isFinalValidationPass /\ RowSliceOutOfRange(GetNumRows(Inputs0))
       THEN /\ err' = "RuntimeError" /\ pc' = "failed"
            /\ UNCHANGED <<m_functionValues, m_pMBLayout, m_outputImageLayout>>
       ELSE /\ m_functionValues' = Resize(m_functionValues, m_numRows, GetNumCols(Inputs0))
            /\ m_pMBLayout' = InferMBLayoutFromInputsForStandardCase
            /\ m_outputImageLayout' = RowImageLayout(m_numRows)
            /\ err' = "none"
            /\ pc' = IF isFinalValidationPass THEN "validated" ELSE "unvalidated"

\* RowSliceNode::EvaluateThisNode
RowSliceNode_EvaluateThisNode(frameRange) ==
    /\ pc = "validated"
    /\ frameRange \in FrameRanges(m_pMBLayout)
    /\ lastCall' = Call("EvaluateThisNode", FALSE, frameRange)
    /\ UNCHANGED <<harnessVars, rowVars, configVars, Inputs0, gradPrep, envSteps>>
    /\ UNCHANGED <<m_gradientValues, m_pMBLayout, m_imageLayout, m_outputImageLayout>>
    /\ IF m_startIndex + m_numRows <= GetNumRows(Inputs0)
       THEN /\ m_functionValues' =
                  WriteSlice(m_functionValues, frameRange, m_pMBLayout,
                             AssignRowSliceValuesOf(SliceOf(Inputs0.FunctionValues, frameRange, Inputs0.MBLayout),
                                                    m_startIndex, m_numRows))
            /\ err' = "none" /\ pc' = "evaluated"
       ELSE \* the band is not inside the input: the matrix library is called out of contract
            /\ err' = "OutOfContract" /\ pc' = "failed"
            /\ UNCHANGED m_functionValues

\* A plausible slip: the gradient is added from row 0 on, whatever the band.
RowSliceInputGradientAtRowZero(frameRange) ==
    WriteSlice(Inputs0.GradientValues, frameRange, Inputs0.MBLayout,
               AddToRowSliceValuesOf(SliceOf(Inputs0.GradientValues, frameRange, Inputs0.MBLayout),
                                     SliceOf(m_gradientValues, frameRange, m_pMBLayout),
                                     0, m_numRows))

\* The input gradient after RowSliceNode::ComputeInputPartial.
RowSliceInputGradient(frameRange) ==
    WriteSlice(Inputs0.GradientValues, frameRange, Inputs0.MBLayout,
               AddToRowSliceValuesOf(SliceOf(Inputs0.GradientValues, frameRange, Inputs0.MBLayout),
                                     SliceOf(m_gradientValues, frameRange, m_pMBLayout),
                                     m_startIndex, m_numRows))

\* RowSliceNode::ComputeInputPartial
RowSliceNode_ComputeInputPartial(frameRange) ==
    /\ pc = "gradready"
    /\ frameRange \in FrameRanges(m_pMBLayout)
    /\ lastCall' = Call("ComputeInputPartial", FALSE, frameRange)
    /\ UNCHANGED <<harnessVars, rowVars, configVars, gradPrep, envSteps, nodeVars>>
    /\ Inputs0' = [Inputs0 EXCEPT !.GradientValues = RowSliceInputGradient(frameRange)]
    /\ err' = "none" /\ pc' = "backpropped"

NextRowSlice ==
    \/ \E isFinalValidationPass \in BOOLEAN : RowSliceNode_Validate(isFinalValidationPass)
    \/ \E frameRange \in FrameRanges(Layout(MaxSeq, MaxFrames)) : RowSliceNode_EvaluateThisNode(frameRange)
    \/ \E prep \in GradientPreparations : RowPrepareGradients(prep[1], prep[2])
    \/ \E frameRange \in FrameRanges(Layout(MaxSeq, MaxFrames)) : RowSliceNode_ComputeInputPartial(frameRange)

SpecRowSlice == InitRowSlice /\ [][NextRowSlice]_vars

\* The rows of the band, as RowSlice(start, count) names them.
InBand(i) == i >= m_startIndex /\ i < m_startIndex + m_numRows

\* The columns a call addresses.
Addressed(frameRange, pMBLayout, m, j) ==
    /\ j >= StartColumn(frameRange, pMBLayout)
    /\ j < StartColumn(frameRange, pMBLayout) + NumSliceCols(frameRange, pMBLayout, m)

\* C11: RowSlice(start, count) backward adds the output gradient only into rows
\* [start, start + count) of the input gradient, for every addressed column:
\* inside the band each entry grows by the matching output-gradient entry,
\* everywhere else the input gradient stays as it was; all ones into a zeroed
\* input gradient give ones in the band and zero elsewhere.
C11_RowSliceBackwardBand ==
    [][(lastCall'.op = "ComputeInputPartial" /\ err' = "none")
          => LET g0 == Inputs0.GradientValues
                 g1 == Inputs0'.GradientValues
                 G == m_gradientValues
                 fr == lastCall'.frameRange
             IN  /\ g1.rows = g0.rows /\ g1.cols = g0.cols
                 /\ \A i \in 0..(g0.rows - 1), j \in 0..(g0.cols - 1) :
                        /\ At(g1, i, j) =
                              IF InBand(i) /\ Addressed(fr, Inputs0.MBLayout, g0, j)
                              THEN At(g0, i, j) + At(G, i - m_startIndex, j)
                              ELSE At(g0, i, j)
                        /\ (gradPrep = [G |-> "ones", g0 |-> 0])
                              => At(g1, i, j) = IF InBand(i) /\ Addressed(fr, Inputs0.MBLayout, g0, j)
                                                THEN 1 ELSE 0]_vars

C11_Witness ==
    /\ lastCall.op = "ComputeInputPartial" /\ err = "none"
    /\ lastCall.frameRange = AllFrames
    /\ m_startIndex = 1 /\ m_numRows = 2 /\ rows0 = 3 /\ cols0 = 2
    /\ gradPrep = [G |-> "ones", g0 |-> 0]
    /\ Inputs0.GradientValues.data = <<0, 1, 1, 0, 1, 1>>

\* C15: RowSlice validation fails on the final pass whenever start + count
\* exceeds the input's row count, and never for that reason on a non-final pass;
\* when it does not fail, the output is resized to count rows and the input's
\* column count.
C15_RowSliceValidation ==
    [][(lastCall'.op = "Validate")
          => /\ (lastCall'.final /\ m_startIndex + m_numRows > rows0) => err' = "RuntimeError"
             /\ ~lastCall'.final => err' = "none"
             /\ err' = "none" => (m_functionValues'.rows = m_numRows /\ m_functionValues'.cols = cols0)]_vars


\* ----------------------------------------------------------------- RowStackNode

MaxStackInputs == 3     \* a RowStack has 1..MaxStackInputs inputs
MaxStackRows == 2       \* each with 1..MaxStackRows rows
MaxStackCols == 2       \* and, without layout, 1..MaxStackCols columns

\* Input number i of a RowStack; its values tell the inputs apart.
StackInput(i, numRows, numCols, layout) ==
    [FunctionValues |-> MatOf(numRows, numCols,
                              [a \in 0..(numRows - 1), b \in 0..(numCols - 1) |->
                                  100 * (i + 1) + b * numRows + a]),
     GradientValues |-> Mat(numRows, numCols, 0),
     MBLayout |-> layout]

\* The inputs share one layout (and then its S * T columns), or have none and
\* any column counts.
StackInputLists ==
    UNION {
        {[i \in 1..n |-> StackInput(i - 1, shape[i][1], shape[i][2], NullLayout)] :
            shape \in [1..n -> (1..MaxStackRows) \X (1..MaxStackCols)]}
        \cup UNION {
            {[i \in 1..n |-> StackInput(i - 1, numRows[i], S * T, Layout(S, T))] :
                numRows \in [1..n -> 1..MaxStackRows]} : S \in 1..MaxSeq, T \in 1..MaxFrames}
        : n \in 1..MaxStackInputs}

InitRowStack ==
    /\ OnlyRowNode
    /\ FreshNode("RowStackNode")
    /\ \E inputs \in StackInputLists :
          /\ Inputs0 = inputs[1]
          /\ MoreInputs = [i \in 1..(Len(inputs) - 1) |-> inputs[i + 1]]
    /\ m_startRowIndices = <<>>
    /\ m_numRows = 0 /\ m_startIndex = 0 /\ m_numRepeat = 1

\* A plausible slip: the running total is stored after the input's rows are added.
RECURSIVE TotalRowsIncluding(_)
TotalRowsIncluding(i) ==
    IF i < 0 THEN 0
    ELSE TotalRowsIncluding(i - 1) + (IF i < ChildrenSize THEN GetNumRows(Inputs(i)) ELSE 0)

\* totalRows as the loop of Validate finds it when it reaches input i: the
\* cumulative sum of the heights of the inputs before it.
RECURSIVE TotalRowsBefore(_)
TotalRowsBefore(i) ==
    IF i = 0 THEN 0 ELSE TotalRowsBefore(i - 1) + GetNumRows(Inputs(i - 1))

\* The inputs whose column count differs from that of Inputs(0).
DifferentNumCols == {i \in 0..(ChildrenSize - 1) : GetNumCols(Inputs(i)) # GetNumCols(Inputs0)}

Min(set) == CHOOSE x \in set : \A y \in set : x <= y

\* RowStackNode::Validate
RowStackNode_Validate(isFinalValidationPass) ==
    /\ pc \in {"unvalidated", "validated"}
    /\ lastCall' = Call("Validate", isFinalValidationPass, AllFrames)
    /\ UNCHANGED <<harnessVars, configVars, Inputs0, MoreInputs, gradPrep, envSteps>>
    /\ UNCHANGED <<m_gradientValues, m_imageLayout, m_startIndex, m_numRepeat>>
    /\ m_pMBLayout' = InferMBLayoutFromInputsForStandardCase
    /\ IF isFinalValidationPass /\ DifferentNumCols # {}
       THEN \* the loop stops at the first such input; the indices before it are already stored
            LET bad == Min(DifferentNumCols)
            IN  /\ err' = "LogicError" /\ errNode' = bad /\ pc' = "failed"
                /\ m_startRowIndices' =
                      [k \in 1..ChildrenSize |->
                          IF k - 1 < bad THEN TotalRowsBefore(k - 1)
                          ELSE IF k <= Len(m_startRowIndices) THEN m_startRowIndices[k]
                          ELSE 0]
                /\ UNCHANGED <<m_functionValues, m_outputImageLayout>>
       ELSE /\ m_startRowIndices' = [k \in 1..ChildrenSize |-> TotalRowsBefore(k - 1)]
            /\ m_functionValues' = Resize(m_functionValues, TotalRowsBefore(ChildrenSize), GetNumCols(Inputs0))
            /\ m_outputImageLayout' = RowImageLayout(TotalRowsBefore(ChildrenSize))
            /\ err' = "none" /\ errNode' = 0 - 1
            /\ pc' = IF isFinalValidationPass THEN "validated" ELSE "unvalidated"

\* The output slice after the loop of EvaluateThisNode has handled inputs 0 .. n-1.
RECURSIVE StackedValues(_, _)
StackedValues(frameRange, n) ==
    IF n = 0
    THEN SliceOf(m_functionValues, frameRange, m_pMBLayout)
    ELSE AssignToRowSliceValuesOf(StackedValues(frameRange, n - 1),
                                  SliceOf(Inputs(n - 1).FunctionValues, frameRange, Inputs(n - 1).MBLayout),
                                  m_startRowIndices[n], GetNumRows(Inputs(n - 1)))

\* RowStackNode::EvaluateThisNode
RowStackNode_EvaluateThisNode(frameRange) ==
    /\ pc = "validated"
    /\ frameRange \in FrameRanges(m_pMBLayout)
    /\ lastCall' = Call("EvaluateThisNode", FALSE, frameRange)
    /\ UNCHANGED <<harnessVars, rowVars, configVars, Inputs0, gradPrep, envSteps>>
    /\ UNCHANGED <<m_gradientValues, m_pMBLayout, m_imageLayout, m_outputImageLayout>>
    /\ m_functionValues' = WriteSlice(m_functionValues, frameRange, m_pMBLayout,
                                      StackedValues(frameRange, ChildrenSize))
    /\ err' = "none" /\ pc' = "evaluated"

\* The gradient of input inputIndex after RowStackNode::ComputeInputPartial.
RowStackInputGradient(inputIndex, frameRange) ==
    LET input == Inputs(inputIndex)
    IN  WriteSlice(input.GradientValues, frameRange, input.MBLayout,
                   AddWithRowSliceValuesOf(SliceOf(input.GradientValues, frameRange, input.MBLayout),
                                           SliceOf(m_gradientValues, frameRange, m_pMBLayout),
                                           m_startRowIndices[inputIndex + 1], GetNumRows(input)))

\* RowStackNode::ComputeInputPartial
RowStackNode_ComputeInputPartial(inputIndex, frameRange) ==
    /\ pc = "gradready"
    /\ inputIndex < ChildrenSize
    /\ frameRange \in FrameRanges(m_pMBLayout)
    /\ lastCall' = Call("ComputeInputPartial", FALSE, frameRange)
    /\ UNCHANGED <<harnessVars, configVars, gradPrep, envSteps, nodeVars>>
    /\ UNCHANGED <<m_startIndex, m_numRepeat, m_startRowIndices, errNode>>
    /\ IF inputIndex = 0
       THEN /\ Inputs0' = [Inputs0 EXCEPT !.GradientValues = RowStackInputGradient(0, frameRange)]
            /\ UNCHANGED MoreInputs
       ELSE /\ MoreInputs' = [MoreInputs EXCEPT ![inputIndex].GradientValues =
                                                    RowStackInputGradient(inputIndex, frameRange)]
            /\ UNCHANGED Inputs0
    /\ err' = "none" /\ pc' = "backpropped"

NextRowStack ==
    \/ \E isFinalValidationPass \in BOOLEAN : RowStackNode_Validate(isFinalValidationPass)
    \/ \E frameRange \in FrameRanges(Layout(MaxSeq, MaxFrames)) : RowStackNode_EvaluateThisNode(frameRange)
    \/ \E prep \in GradientPreparations : RowPrepareGradients(prep[1], prep[2])
    \/ \E inputIndex \in 0..(MaxStackInputs - 1), frameRange \in FrameRanges(Layout(MaxSeq, MaxFrames)) :
          RowStackNode_ComputeInputPartial(inputIndex, frameRange)

SpecRowStack == InitRowStack /\ [][NextRowStack]_vars


\* C12: RowStack validation over inputs with row counts r_0 .. r_{n-1} and equal
\* column counts stores the exclusive prefix sums as start offsets (offset_0 = 0,
\* offset_i = offset_{i-1} + r_{i-1}) and resizes the output to sum(r_i) rows;
\* after forward evaluation RowSlice(offset_i, r_i) of the output equals input i
\* exactly, for every i.
C12_RowStackOffsets ==
    LET n == ChildrenSize
        r(i) == GetNumRows(Inputs(i))
        offset(i) == m_startRowIndices[i + 1]
    IN  /\ (lastCall.op = "Validate" /\ err = "none" /\ DifferentNumCols = {})
              => /\ Len(m_startRowIndices) = n
                 /\ offset(0) = 0
                 /\ \A i \in 1..(n - 1) : offset(i) = offset(i - 1) + r(i - 1)
                 /\ m_functionValues.rows = offset(n - 1) + r(n - 1)
                 /\ m_functionValues.cols = cols0
        /\ (lastCall.op = "EvaluateThisNode" /\ err = "none")
              => \A i \in 0..(n - 1) :
                    AssignRowSliceValuesOf(SliceOf(m_functionValues, lastCall.frameRange, m_pMBLayout),
                                           offset(i), r(i))
                        = SliceOf(Inputs(i).FunctionValues, lastCall.frameRange, Inputs(i).MBLayout)

C12_Witness ==
    /\ lastCall.op = "EvaluateThisNode" /\ err = "none" /\ lastCall.frameRange = AllFrames
    /\ ChildrenSize = 3
    /\ GetNumRows(Inputs(0)) = 1 /\ GetNumRows(Inputs(1)) = 2 /\ GetNumRows(Inputs(2)) = 2
    /\ cols0 = 2
    /\ m_startRowIndices = <<0, 1, 3>>
    /\ m_functionValues.rows = 5
    /\ AssignRowSliceValuesOf(m_functionValues, 3, 2) = Inputs(2).FunctionValues

\* The error classes: a configuration error is InvalidArgument or RuntimeError,
\* an internal-consistency error is LogicError.
ConfigurationErrors == {"InvalidArgument", "RuntimeError"}

\* C14: whenever two inputs of a RowStack have different column counts,
\* validation fails with a configuration error that names an offending input.
C14_RowStackColumnMismatch ==
    (lastCall.op = "Validate"
        /\ \E i, j \in 0..(ChildrenSize - 1) : GetNumCols(Inputs(i)) # GetNumCols(Inputs(j)))
        => /\ err \in ConfigurationErrors
           /\ errNode \in DifferentNumCols


\* ---------------------------------------------------------------- RowRepeatNode

MaxRepeat == 3          \* RowRepeat tile counts 0..MaxRepeat

InitRowRepeat ==
    /\ OnlyRowNode
    /\ FreshNode("RowRepeatNode")
    /\ m_numRepeat \in 0..MaxRepeat
    /\ Inputs0 \in RowInputNodes
    /\ MoreInputs = <<>>
    /\ m_numRows = 0 /\ m_startIndex = 0 /\ m_startRowIndices = <<>>

\* RowRepeatNode::Validate
RowRepeatNode_Validate(isFinalValidationPass) ==
    /\ pc \in {"unvalidated", "validated"}
    /\ lastCall' = Call("Validate", isFinalValidationPass, AllFrames)
    /\ UNCHANGED <<harnessVars, rowVars, configVars, Inputs0, gradPrep, envSteps>>
    /\ UNCHANGED <<m_gradientValues, m_imageLayout>>
    /\ m_functionValues' = Resize(m_functionValues, GetNumRows(Inputs0) * m_numRepeat, GetNumCols(Inputs0))
    /\ m_pMBLayout' = InferMBLayoutFromInputsForStandardCase
    /\ m_outputImageLayout' = RowImageLayout(GetNumRows(Inputs0) * m_numRepeat)
    /\ err' = "none"
    /\ pc' = IF isFinalValidationPass THEN "validated" ELSE "unvalidated"

\* RowRepeatNode::EvaluateThisNode
RowRepeatNode_EvaluateThisNode(frameRange) ==
    /\ pc = "validated"
    /\ frameRange \in FrameRanges(m_pMBLayout)
    /\ lastCall' = Call("EvaluateThisNode", FALSE, frameRange)
    /\ UNCHANGED <<harnessVars, rowVars, configVars, Inputs0, gradPrep, envSteps>>
    /\ UNCHANGED <<m_gradientValues, m_pMBLayout, m_imageLayout, m_outputImageLayout>>
    /\ m_functionValues' =
          WriteSlice(m_functionValues, frameRange, m_pMBLayout,
                     AssignRepeatOf(SliceOf(Inputs0.FunctionValues, frameRange, Inputs0.MBLayout),
                                    m_numRepeat, 1))
    /\ err' = "none" /\ pc' = "evaluated"

\* A plausible slip: only the first tile is added, as a row slice would be.
RowRepeatInputGradientFirstTile(frameRange) ==
    WriteSlice(Inputs0.GradientValues, frameRange, Inputs0.MBLayout,
               AddToRowRepeatValuesOf(SliceOf(Inputs0.GradientValues, frameRange, Inputs0.MBLayout),
                                      SliceOf(m_gradientValues, frameRange, m_pMBLayout),
                                      IF m_numRepeat > 0 THEN 1 ELSE 0))

\* The input gradient after RowRepeatNode::ComputeInputPartial.
RowRepeatInputGradient(frameRange) ==
    WriteSlice(Inputs0.GradientValues, frameRange, Inputs0.MBLayout,
               AddToRowRepeatValuesOf(SliceOf(Inputs0.GradientValues, frameRange, Inputs0.MBLayout),
                                      SliceOf(m_gradientValues, frameRange, m_pMBLayout),
                                      m_numRepeat))

\* RowRepeatNode::ComputeInputPartial
RowRepeatNode_ComputeInputPartial(frameRange) ==
    /\ pc = "gradready"
    /\ frameRange \in FrameRanges(m_pMBLayout)
    /\ lastCall' = Call("ComputeInputPartial", FALSE, frameRange)
    /\ UNCHANGED <<harnessVars, rowVars, configVars, gradPrep, envSteps, nodeVars>>
    /\ Inputs0' = [Inputs0 EXCEPT !.GradientValues = RowRepeatInputGradient(frameRange)]
    /\ err' = "none" /\ pc' = "backpropped"

NextRowRepeat ==
    \/ \E isFinalValidationPass \in BOOLEAN : RowRepeatNode_Validate(isFinalValidationPass)
    \/ \E frameRange \in FrameRanges(Layout(MaxSeq, MaxFrames)) : RowRepeatNode_EvaluateThisNode(frameRange)
    \/ \E prep \in GradientPreparations : RowPrepareGradients(prep[1], prep[2])
    \/ \E frameRange \in FrameRanges(Layout(MaxSeq, MaxFrames)) : RowRepeatNode_ComputeInputPartial(frameRange)

SpecRowRepeat == InitRowRepeat /\ [][NextRowRepeat]_vars

\* C13: RowRepeat(count) backward is the adjoint of duplication: for an input of
\* R rows, input-gradient entry (r, c) of every addressed column grows by
\* G(r, c) + G(r + R, c) + ... + G(r + (count-1)*R, c), the sum over all tiles
\* of the output gradient G; all ones into a zeroed input gradient give count in
\* every addressed entry.
C13_RowRepeatBackwardSumsTiles ==
    [][(lastCall'.op = "ComputeInputPartial" /\ err' = "none")
          => LET g0 == Inputs0.GradientValues
                 g1 == Inputs0'.GradientValues
                 G == m_gradientValues
                 R == rows0
                 fr == lastCall'.frameRange
                 tiles == 0..(m_numRepeat - 1)
                 \* the sum of G(r + i*R, c) over the tiles i, one tile at a time
                 upTo[n \in 0..m_numRepeat] ==
                     [rc \in (0..(R - 1)) \X (0..(g0.cols - 1)) |->
                         IF n = 0 THEN 0 ELSE upTo[n - 1][rc] + At(G, rc[1] + (n - 1) * R, rc[2])]
             IN  /\ g1.rows = g0.rows /\ g1.cols = g0.cols
                 /\ G.rows = R * m_numRepeat
                 /\ \A r \in 0..(R - 1), c \in 0..(g0.cols - 1) :
                        /\ At(g1, r, c) =
                              IF Addressed(fr, Inputs0.MBLayout, g0, c)
                              THEN At(g0, r, c) + upTo[m_numRepeat][<<r, c>>]
                              ELSE At(g0, r, c)
                        /\ (gradPrep = [G |-> "ones", g0 |-> 0] /\ Addressed(fr, Inputs0.MBLayout, g0, c))
                              => At(g1, r, c) = m_numRepeat]_vars

C13_Witness ==
    /\ lastCall.op = "ComputeInputPartial" /\ err = "none" /\ lastCall.frameRange = AllFrames
    /\ m_numRepeat = 3 /\ rows0 = 2 /\ cols0 = 2
    /\ m_gradientValues = Ones(6, 2)
    /\ gradPrep = [G |-> "ones", g0 |-> 0]
    /\ Inputs0.GradientValues.data = <<3, 3, 3, 3>>


\* -------------------------------------------------------- ReconcileMBLayoutNode

MaxDataRows == 2        \* rows of dataInput, 1..MaxDataRows

\* dataInput is Inputs(0); layoutInput, Inputs(1), has one row.
LayoutInputNodes ==
    {InputNode(1, 1, NullLayout)}
        \cup {InputNode(1, S * T, Layout(S, T)) : S \in 1..MaxSeq, T \in 1..MaxFrames}

DataInputNodes == {input \in RowInputNodes : GetNumRows(input) <= MaxDataRows}

InitReconcile ==
    /\ OnlyRowNode
    /\ FreshNode("ReconcileMBLayoutNode")
    /\ Inputs0 \in DataInputNodes
    /\ \E layoutInput \in LayoutInputNodes : MoreInputs = <<layoutInput>>
    /\ m_numRows = 0 /\ m_startIndex = 0 /\ m_numRepeat = 1 /\ m_startRowIndices = <<>>

\* ReconcileMBLayoutNode::Validate
ReconcileMBLayoutNode_Validate(isFinalValidationPass) ==
    /\ pc \in {"unvalidated", "validated"}
    /\ lastCall' = Call("Validate", isFinalValidationPass, AllFrames)
    /\ UNCHANGED <<harnessVars, rowVars, configVars, Inputs0, gradPrep, envSteps>>
    /\ UNCHANGED <<m_gradientValues, m_imageLayout>>
    /\ IF isFinalValidationPass /\ (~HasMBLayout(Inputs(0)) \/ ~HasMBLayout(Inputs(1)))
       THEN /\ err' = "RuntimeError" /\ pc' = "failed"
            /\ UNCHANGED <<m_functionValues, m_pMBLayout, m_outputImageLayout>>
       ELSE /\ m_pMBLayout' = Inputs(1).MBLayout     \* output layout is that of 'layoutInput'
            /\ m_functionValues' = Resize(m_functionValues, GetNumRows(Inputs(0)), GetNumCols(Inputs(0)))
            /\ m_outputImageLayout' = RowImageLayout(GetNumRows(Inputs(0)))
            /\ err' = "none"
            /\ pc' = IF isFinalValidationPass THEN "validated" ELSE "unvalidated"

\* A plausible slip: only the column counts of the two layouts are compared.
LayoutsDifferInSize(a, b) == a.S * a.T # b.S * b.T

\* *a != *b: a deep value-level comparison of two layouts.
LayoutsDiffer(a, b) == a # b

\* The columns of a frame range exist in the matrix.
SliceInRange(m, frameRange, pMBLayout) ==
    StartColumn(frameRange, pMBLayout) + NumSliceCols(frameRange, pMBLayout, m) <= m.cols

\* ReconcileMBLayoutNode::EvaluateThisNode
ReconcileMBLayoutNode_EvaluateThisNode(frameRange) ==
    /\ pc = "validated"
    /\ frameRange \in FrameRanges(m_pMBLayout)
    /\ lastCall' = Call("EvaluateThisNode", FALSE, frameRange)
    /\ UNCHANGED <<harnessVars, rowVars, configVars, Inputs0, gradPrep, envSteps>>
    /\ UNCHANGED <<m_gradientValues, m_pMBLayout, m_imageLayout, m_outputImageLayout>>
    /\ IF LayoutsDiffer(m_pMBLayout, Inputs(0).MBLayout)
       THEN /\ err' = "InvalidArgument" /\ pc' = "failed"
            /\ UNCHANGED m_functionValues
       ELSE IF /\ SliceInRange(m_functionValues, frameRange, m_pMBLayout)
               /\ SliceInRange(Inputs(0).FunctionValues, frameRange, Inputs(0).MBLayout)
               /\ NumSliceCols(frameRange, m_pMBLayout, m_functionValues)
                      = NumSliceCols(frameRange, Inputs(0).MBLayout, Inputs(0).FunctionValues)
       THEN \* copy the data from 'dataInput'
            /\ m_functionValues' =
                  WriteSlice(m_functionValues, frameRange, m_pMBLayout,
                             SliceOf(Inputs(0).FunctionValues, frameRange, Inputs(0).MBLayout))
            /\ err' = "none" /\ pc' = "evaluated"
       ELSE \* the two slices do not match: the matrix library is called out of contract
            /\ err' = "OutOfContract" /\ pc' = "failed"
            /\ UNCHANGED m_functionValues

\* ReconcileMBLayoutNode::ComputeInputPartial
ReconcileMBLayoutNode_ComputeInputPartial(frameRange) ==
    /\ pc = "gradready"
    /\ frameRange \in FrameRanges(m_pMBLayout)
    /\ lastCall' = Call("ComputeInputPartial", FALSE, frameRange)
    /\ UNCHANGED <<harnessVars, rowVars, configVars, gradPrep, envSteps, nodeVars>>
    /\ LET g == Inputs0.GradientValues
           to == SliceOf(g, frameRange, Inputs0.MBLayout)
           from == SliceOf(m_gradientValues, frameRange, m_pMBLayout)
           sum == MatOf(to.rows, to.cols,
                        [i \in 0..(to.rows - 1), j \in 0..(to.cols - 1) |-> At(to, i, j) + At(from, i, j)])
       IN  Inputs0' = [Inputs0 EXCEPT !.GradientValues = WriteSlice(g, frameRange, Inputs0.MBLayout, sum)]
    /\ err' = "none" /\ pc' = "backpropped"

NextReconcile ==
    \/ \E isFinalValidationPass \in BOOLEAN : ReconcileMBLayoutNode_Validate(isFinalValidationPass)
    \/ \E frameRange \in FrameRanges(Layout(MaxSeq, MaxFrames)) : ReconcileMBLayoutNode_EvaluateThisNode(frameRange)
    \/ \E prep \in GradientPreparations : RowPrepareGradients(prep[1], prep[2])
    \/ \E frameRange \in FrameRanges(Layout(MaxSeq, MaxFrames)) : ReconcileMBLayoutNode_ComputeInputPartial(frameRange)

SpecReconcile == InitReconcile /\ [][NextReconcile]_vars

\* C18: ReconcileMBLayout.  A validation that completes leaves the node with the
\* layout of its second input; final validation fails if either input has no
\* layout.  Every forward evaluation compares the node's layout by value with
\* the layout of the first input: if they differ it ends with InvalidArgument
\* and the output is not written; if they are equal the addressed columns of
\* the output become a copy of the same columns of the first input, and the
\* other columns stay as they were.
C18_ReconcileMBLayout ==
    [][/\ (lastCall'.op = "Validate" /\ err' = "none")
            => m_pMBLayout' = MoreInputs[1].MBLayout
       /\ (lastCall'.op = "Validate" /\ lastCall'.final
                /\ (Inputs0.MBLayout.isNull \/ MoreInputs[1].MBLayout.isNull))
            => err' # "none"
       /\ (lastCall'.op = "EvaluateThisNode")
            => LET fr == lastCall'.frameRange
                   x == Inputs0.FunctionValues
                   y0 == m_functionValues
                   y1 == m_functionValues'
               IN  IF m_pMBLayout = Inputs0.MBLayout
                   THEN /\ err' = "none"
                        /\ y1.rows = x.rows /\ y1.cols = x.cols
                        /\ \A i \in 0..(x.rows - 1), j \in 0..(x.cols - 1) :
                              At(y1, i, j) = IF Addressed(fr, m_pMBLayout, y0, j)
                                             THEN At(x, i, j)
                                             ELSE At(y0, i, j)
                   ELSE err' = "InvalidArgument" /\ y1 = y0]_vars

C18_Witness ==
    /\ lastCall.op = "EvaluateThisNode" /\ err = "InvalidArgument"
    /\ m_pMBLayout = Layout(1, 2) /\ Inputs0.MBLayout = Layout(2, 1)
    /\ MoreInputs[1].MBLayout = Layout(1, 2)
    /\ m_functionValues.data = <<Indeterminate, Indeterminate>>

=============================================================================
